---- MODULE Spec2Model ----
(***************************************************************************)
(* A model of tools/plot-comp-ratio.py: the head-to-head comparison        *)
(* script that parses two measurement files, averages every line, divides  *)
(* the averages pairwise with safe_div, plots the ratios and saves the     *)
(* figure.                                                                 *)
(*                                                                         *)
(* Python floats are modelled as binary floating-point numbers with a      *)
(* Prec-bit significand and round-to-nearest, ties-to-even (IEEE 754       *)
(* doubles have 53 bits; the model scales the width down and scales the    *)
(* input values with it).  Signed zeros, infinities and the exponent       *)
(* limits of doubles are not modelled.                                     *)
(***************************************************************************)
EXTENDS Integers, Sequences, FiniteSets, TLC

\* ------------------------------------------------------------------ bounds
\* Width of the significand of the modelled floats, in bits.
Prec == 3
\* Most measurements on a line of the single-line specifications.
MaxMeas == 3
\* Most file paths on the command line.
MaxArgs == 3

\* ------------------------------------------------- floating-point numbers
RECURSIVE Pow2(_)
Pow2(n) == IF n <= 0 THEN 1 ELSE 2 * Pow2(n - 1)

Abs(x) == IF x < 0 THEN -x ELSE x

Min(a, b) == IF a <= b THEN a ELSE b

\* A float is the not-a-number value or the finite value m * 2^e, kept in
\* canonical form (m odd, or m = 0 and e = 0).  "raise" is not a float: it is
\* the outcome of a division that raises ZeroDivisionError.
NaN == [k |-> "nan", m |-> 0, e |-> 0]

DivRaises == [k |-> "raise", m |-> 0, e |-> 0]

RECURSIVE Normalize(_, _)
Normalize(m, e) ==
    IF m = 0 THEN [k |-> "fin", m |-> 0, e |-> 0]
    ELSE IF m % 2 = 0 THEN Normalize(m \div 2, e + 1)
    ELSE [k |-> "fin", m |-> m, e |-> e]

IsZero(a) == a.k = "fin" /\ a.m = 0

\* The fraction P / Q (P, Q > 0) scaled by a power of two into the range
\* [2^(Prec-1), 2^Prec): P / Q = (p / q) * 2^e.
RECURSIVE Scale(_, _, _)
Scale(P, Q, e) ==
    IF P < Pow2(Prec - 1) * Q THEN Scale(2 * P, Q, e - 1)
    ELSE IF P >= Pow2(Prec) * Q THEN Scale(P, 2 * Q, e + 1)
    ELSE [p |-> P, q |-> Q, e |-> e]

\* The float nearest to the rational p / q (q > 0): Prec significant bits,
\* ties to the even significand.
Round(p, q) ==
    IF p = 0 THEN Normalize(0, 0)
    ELSE
      LET s == IF p < 0 THEN -1 ELSE 1
          f == Scale(Abs(p), q, 0)
          qt == f.p \div f.q
          r == f.p % f.q
          mant == IF 2 * r < f.q THEN qt
                  ELSE IF 2 * r > f.q THEN qt + 1
                  ELSE IF qt % 2 = 0 THEN qt ELSE qt + 1
      IN Normalize(s * mant, f.e)

\* float + float
FloatAdd(a, b) ==
    IF a.k = "nan" \/ b.k = "nan" THEN NaN
    ELSE
      LET lo == Min(a.e, b.e)
          M == a.m * Pow2(a.e - lo) + b.m * Pow2(b.e - lo)
      IN Round(M * Pow2(lo), Pow2(-lo))

\* a / b of the language: raises on a zero divisor, is NaN on a NaN operand.
PyDiv(a, b) ==
    IF IsZero(b) THEN DivRaises
    ELSE IF a.k = "nan" \/ b.k = "nan" THEN NaN
    ELSE
      LET s == IF b.m < 0 THEN -1 ELSE 1
          d == a.e - b.e
      IN Round(s * a.m * Pow2(d), Abs(b.m) * Pow2(-d))

\* float(n) of an integer n
FromInt(n) == Round(n, 1)

safe_div_wrong_operand(a, b) ==
    IF ~IsZero(a) THEN PyDiv(a, b) ELSE NaN

\* def safe_div(a, b): return a / b if b != 0 else NaN
safe_div(a, b) ==
    IF ~IsZero(b) THEN PyDiv(a, b) ELSE NaN

\* ------------------------------------------------------------ the parser
\* The tokens of the modelled input lines, as str.split() yields them.
IntTokens == {"-1", "0", "1", "2", "3", "4", "8", "10", "16", "20", "30"}

IntValue(tok) ==
    CASE tok = "-1" -> -1 [] tok = "0" -> 0 [] tok = "1" -> 1 [] tok = "2" -> 2
      [] tok = "3" -> 3 [] tok = "4" -> 4 [] tok = "8" -> 8 [] tok = "10" -> 10
      [] tok = "16" -> 16 [] tok = "20" -> 20 [] tok = "30" -> 30

\* int(tok): the integer, or ValueError (ok = FALSE) for "1.5", "nan", "x".
PyInt(tok) ==
    IF tok \in IntTokens THEN [ok |-> TRUE, v |-> IntValue(tok)]
    ELSE [ok |-> FALSE, v |-> 0]

PyFloat_lenient(tok) ==
    IF tok \in IntTokens THEN [ok |-> TRUE, v |-> Round(IntValue(tok), 1)]
    ELSE IF tok = "1.5" THEN [ok |-> TRUE, v |-> Round(3, 2)]
    ELSE IF tok = "nan" THEN [ok |-> TRUE, v |-> NaN]
    ELSE [ok |-> TRUE, v |-> Round(0, 1)]

\* float(tok): the nearest float to the decimal, NaN for "nan", or ValueError
\* (ok = FALSE) for a token that is no number.
PyFloat(tok) ==
    IF tok \in IntTokens THEN [ok |-> TRUE, v |-> Round(IntValue(tok), 1)]
    ELSE IF tok = "1.5" THEN [ok |-> TRUE, v |-> Round(3, 2)]
    ELSE IF tok = "nan" THEN [ok |-> TRUE, v |-> NaN]
    ELSE [ok |-> FALSE, v |-> NaN]

RECURSIVE SumFrom(_, _, _)
SumFrom(acc, m, k) ==
    IF k > Len(m) THEN acc ELSE SumFrom(FloatAdd(acc, m[k]), m, k + 1)

PySum_skip_first(m) == SumFrom(FromInt(0), m, 2)

\* sum(m): starts from 0 and adds the elements from left to right, rounding
\* after every addition.
PySum(m) == SumFrom(FromInt(0), m, 1)

Average_nan_on_empty(m) ==
    IF Len(m) = 0 THEN NaN ELSE PyDiv(PySum(m), FromInt(Len(m)))

\* a = sum(m) / len(m)
Average(m) == PyDiv(PySum(m), FromInt(Len(m)))

\* The body of the loop over f.readlines(): the record [n] + m + [a] of a
\* line, or the exception the line raises.
ParseLine(toks) ==
    IF Len(toks) = 0 THEN [err |-> "IndexError", rec |-> <<>>]
    ELSE IF ~PyInt(toks[1]).ok THEN [err |-> "ValueError", rec |-> <<>>]
    ELSE IF \E k \in 2..Len(toks) : ~PyFloat(toks[k]).ok
      THEN [err |-> "ValueError", rec |-> <<>>]
    ELSE
      LET n == PyInt(toks[1]).v
          m == [k \in 1..(Len(toks) - 1) |-> PyFloat(toks[k + 1]).v]
          a == Average(m)
      IN IF a.k = "raise" THEN [err |-> "ZeroDivisionError", rec |-> <<>>]
         ELSE [err |-> "", rec |-> <<n>> \o m \o <<a>>]

\* ------------------------------------------------------------ the inputs
\* The files a run can be pointed at: each is the list of its lines, each
\* line the list of its whitespace-separated tokens.  A path outside this
\* map names no file.
FS ==
    [ name \in {"a.txt", "b.txt", "z.txt", "one.txt", "empty.txt", "blank.txt",
                "sizeonly.txt", "badsize.txt", "badmeas.txt"} |->
      CASE name = "a.txt" -> << <<"10", "1", "3">>, <<"20", "2", "2">> >>
        [] name = "b.txt" -> << <<"10", "2", "2">>, <<"20", "4", "4">> >>
        [] name = "z.txt" -> << <<"30", "0", "0">>, <<"10", "1", "-1">> >>
        [] name = "one.txt" -> << <<"10", "nan", "1.5">> >>
        [] name = "empty.txt" -> << >>
        [] name = "blank.txt" -> << <<"10", "1">>, << >> >>
        [] name = "sizeonly.txt" -> << <<"10">> >>
        [] name = "badsize.txt" -> << <<"1.5", "1">> >>
        [] name = "badmeas.txt" -> << <<"10", "1">>, <<"20", "1", "x">> >> ]

Paths == (DOMAIN FS) \cup {"missing.txt"}

\* An option of the command line: <<>> when it was not given (None), <<s>>
\* when it was given the string s.
Given(s) == <<s>>

NotGiven == << >>

Truthy_not_none(v) == v # NotGiven

\* Python's truth value of an option: None and "" are false.
Truthy(v) == v # NotGiven /\ v[1] # ""

VARIABLES
    args,      \* the positional arguments (parser.parse_args)
    opts,      \* the options: output, ylabel, title
    pc,        \* where the script is
    argi,      \* the position in args of the file being read
    pending,   \* the lines of the open file not read yet
    results,   \* the records of the open file
    data,      \* the records of the files read
    sizes, avg1, avg2, comp,
    plot,      \* pyplot's current figure
    opened,    \* the paths opened, in order
    written,   \* the paths savefig wrote, in order
    err,       \* the exception that ended the run, or ""
    line,      \* the line given to the single-line parser
    parsed,    \* what the single-line parser made of it
    x, y, q    \* safe_div's operands and result

vars == <<args, opts, pc, argi, pending, results, data, sizes, avg1, avg2,
          comp, plot, opened, written, err, line, parsed, x, y, q>>

script == <<args, opts, argi, pending, results, data, sizes, avg1, avg2,
            comp, plot, opened, written, err>>

EmptyPlot == [traces |-> << >>, xlabel |-> "", ylabel |-> "", title |-> ""]

RECURSIVE SeqsOver(_, _)
SeqsOver(S, n) ==
    IF n = 0 THEN {<< >>}
    ELSE LET shorter == SeqsOver(S, n - 1)
         IN shorter \cup {Append(s, e) : s \in {t \in shorter : Len(t) = n - 1}, e \in S}

OptionValues ==
    [output : {NotGiven, Given(""), Given("plot.png")},
     ylabel : {NotGiven, Given("speedup")},
     title : {NotGiven, Given("f1 vs f2")}]

ScriptIdle ==
    /\ args = << >> /\ opts = [output |-> NotGiven, ylabel |-> NotGiven, title |-> NotGiven]
    /\ argi = 1 /\ pending = << >> /\ results = << >> /\ data = << >>
    /\ sizes = << >> /\ avg1 = << >> /\ avg2 = << >> /\ comp = << >>
    /\ plot = EmptyPlot /\ opened = << >> /\ written = << >> /\ err = ""

FnIdle ==
    /\ line = << >> /\ parsed = [err |-> "", rec |-> << >>]
    /\ x = NaN /\ y = NaN /\ q = NaN

\* The state after parser.parse_args(): the arguments and options of the
\* command line, nothing read yet.
Init ==
    /\ args \in SeqsOver(Paths, MaxArgs)
    /\ opts \in OptionValues
    /\ pc = "loop"
    /\ argi = 1 /\ pending = << >> /\ results = << >> /\ data = << >>
    /\ sizes = << >> /\ avg1 = << >> /\ avg2 = << >> /\ comp = << >>
    /\ plot = EmptyPlot /\ opened = << >> /\ written = << >> /\ err = ""
    /\ FnIdle

Fail(kind) ==
    /\ pc' = "error"
    /\ err' = kind

OpenLog_twice(log, name) == log \o <<name, name>>

\* what open(i) adds to the files opened
OpenLog(log, name) == Append(log, name)

\* f = open(i); results = []; f.readlines()
OpenFile ==
    /\ pc = "loop"
    /\ argi <= Len(args)
    /\ IF args[argi] \in DOMAIN FS
         THEN /\ opened' = OpenLog(opened, args[argi])
              /\ pending' = FS[args[argi]]
              /\ results' = << >>
              /\ pc' = "lines"
              /\ UNCHANGED err
         ELSE /\ Fail("IOError")
              /\ UNCHANGED <<opened, pending, results>>
    /\ UNCHANGED <<args, opts, argi, data, sizes, avg1, avg2, comp, plot,
                   written, line, parsed, x, y, q>>

\* one pass of the loop over the lines of the open file
ReadLine ==
    /\ pc = "lines"
    /\ pending # << >>
    /\ LET r == ParseLine(Head(pending))
       IN IF r.err = ""
            THEN /\ results' = Append(results, r.rec)
                 /\ pending' = Tail(pending)
                 /\ UNCHANGED <<pc, err>>
            ELSE /\ Fail(r.err)
                 /\ UNCHANGED <<results, pending>>
    /\ UNCHANGED <<args, opts, argi, data, sizes, avg1, avg2, comp, plot,
                   opened, written, line, parsed, x, y, q>>

\* data += [results], and on to the next argument
EndOfFile ==
    /\ pc = "lines"
    /\ pending = << >>
    /\ data' = Append(data, results)
    /\ argi' = argi + 1
    /\ pc' = "loop"
    /\ UNCHANGED <<args, opts, pending, results, sizes, avg1, avg2, comp,
                   plot, opened, written, err, line, parsed, x, y, q>>

AssertHolds_at_least_two(d) == Len(d) >= 2

\* assert len(data) == 2
AssertHolds(d) == Len(d) = 2

AssertTwo ==
    /\ pc = "loop"
    /\ argi > Len(args)
    /\ IF AssertHolds(data)
         THEN pc' = "columns" /\ UNCHANGED err
         ELSE Fail("AssertionError")
    /\ UNCHANGED <<args, opts, argi, pending, results, data, sizes, avg1,
                   avg2, comp, plot, opened, written, line, parsed, x, y, q>>

Last(s) == s[Len(s)]

\* sizes, avg1, avg2: the first column of the first file, the last column of
\* each file
Columns ==
    /\ pc = "columns"
    /\ sizes' = [k \in 1..Len(data[1]) |-> data[1][k][1]]
    /\ avg1' = [k \in 1..Len(data[1]) |-> Last(data[1][k])]
    /\ avg2' = [k \in 1..Len(data[2]) |-> Last(data[2][k])]
    /\ pc' = "comp"
    /\ UNCHANGED <<args, opts, argi, pending, results, data, comp, plot,
                   opened, written, err, line, parsed, x, y, q>>

Ratios_inverted(s, a1, a2) ==
    IF \E k \in 1..Len(s) : k > Len(a1) \/ k > Len(a2)
      THEN [err |-> "IndexError", val |-> << >>]
      ELSE [err |-> "", val |-> [k \in 1..Len(s) |-> safe_div(a2[k], a1[k])]]

Ratios_shortest(s, a1, a2) ==
    [err |-> "",
     val |-> [k \in 1..Min(Len(s), Len(a2)) |-> safe_div(a1[k], a2[k])]]

\* comp = [safe_div(avg1[i], avg2[i]) for i in range(len(sizes))]
Ratios(s, a1, a2) ==
    IF \E k \in 1..Len(s) : k > Len(a1) \/ k > Len(a2)
      THEN [err |-> "IndexError", val |-> << >>]
      ELSE [err |-> "", val |-> [k \in 1..Len(s) |-> safe_div(a1[k], a2[k])]]

Compare ==
    /\ pc = "comp"
    /\ LET r == Ratios(sizes, avg1, avg2)
       IN IF r.err = ""
            THEN comp' = r.val /\ pc' = "plot" /\ UNCHANGED err
            ELSE Fail(r.err) /\ UNCHANGED comp
    /\ UNCHANGED <<args, opts, argi, pending, results, data, sizes, avg1,
                   avg2, plot, opened, written, line, parsed, x, y, q>>

Figure_always_labelled(fig, ys, o) ==
    [traces |-> Append(fig.traces, [x |-> [k \in 1..Len(ys) |-> k - 1], y |-> ys]),
     xlabel |-> "Data size",
     ylabel |-> IF o.ylabel # NotGiven THEN o.ylabel[1] ELSE "ratio",
     title |-> IF Truthy(o.title) THEN o.title[1] ELSE fig.title]

\* p.plot(comp); p.xlabel('Data size'); p.ylabel and p.title when given
Figure(fig, ys, o) ==
    [traces |-> Append(fig.traces, [x |-> [k \in 1..Len(ys) |-> k - 1], y |-> ys]),
     xlabel |-> "Data size",
     ylabel |-> IF Truthy(o.ylabel) THEN o.ylabel[1] ELSE fig.ylabel,
     title |-> IF Truthy(o.title) THEN o.title[1] ELSE fig.title]

Plot ==
    /\ pc = "plot"
    /\ plot' = Figure(plot, comp, opts)
    /\ pc' = "save"
    /\ UNCHANGED <<args, opts, argi, pending, results, data, sizes, avg1,
                   avg2, comp, opened, written, err, line, parsed, x, y, q>>

SaveFig_any_option(out, log) ==
    IF Truthy_not_none(out) THEN Append(log, out[1]) ELSE log

\* out = opts.output; if out: p.savefig(out)
SaveFig(out, log) ==
    IF Truthy(out) THEN Append(log, out[1]) ELSE log

Save ==
    /\ pc = "save"
    /\ written' = SaveFig(opts.output, written)
    /\ pc' = "done"
    /\ UNCHANGED <<args, opts, argi, pending, results, data, sizes, avg1,
                   avg2, comp, plot, opened, err, line, parsed, x, y, q>>

Next ==
    \/ OpenFile
    \/ ReadLine
    \/ EndOfFile
    \/ AssertTwo
    \/ Columns
    \/ Compare
    \/ Plot
    \/ Save

Spec == Init /\ [][Next]_vars

\* --------------------------------------------- the single-line parser alone
\* The tokens of the lines given to the parser alone: 8 and 16 are 2^Prec at
\* the two smallest widths, where adding 1 is rounded away.
LineTokens == {"0", "1", "-1", "8", "16", "1.5", "nan", "x"}

InitLine ==
    /\ line \in SeqsOver(LineTokens, MaxMeas + 1)
    /\ parsed = [err |-> "", rec |-> << >>]
    /\ pc = "line"
    /\ x = NaN /\ y = NaN /\ q = NaN
    /\ ScriptIdle

\* the loop body applied to the line
ParseTheLine ==
    /\ pc = "line"
    /\ parsed' = ParseLine(line)
    /\ pc' = "line_done"
    /\ UNCHANGED <<script, line, x, y, q>>

NextLine == ParseTheLine

SpecLine == InitLine /\ [][NextLine]_vars

\* ------------------------------------------------------- safe_div alone
\* The operands given to safe_div alone: NaN and the floats nearest to small
\* fractions, zero and negative values among them.
Operands == {NaN} \cup {Round(n, d) : n \in -3..9, d \in {1, 3}}

InitDiv ==
    /\ x \in Operands
    /\ y \in Operands
    /\ q = NaN
    /\ pc = "div"
    /\ line = << >> /\ parsed = [err |-> "", rec |-> << >>]
    /\ ScriptIdle

CallSafeDiv ==
    /\ pc = "div"
    /\ q' = safe_div(x, y)
    /\ pc' = "div_done"
    /\ UNCHANGED <<script, line, parsed, x, y>>

NextDiv == CallSafeDiv

SpecDiv == InitDiv /\ [][NextDiv]_vars

\* ============================================================ properties
\* What the properties below say of the inputs, independently of the parser.

\* The tokens that spell a number: the integer literals, a decimal and nan.
Numeric(tok) == tok \in IntTokens \cup {"1.5", "nan"}

Integral(tok) == tok \in IntTokens

\* A line that follows the documented format: an integral size and at least
\* one measurement, every measurement a number.
WellFormed(toks) ==
    /\ Len(toks) >= 2
    /\ Integral(toks[1])
    /\ \A k \in 2..Len(toks) : Numeric(toks[k])

\* A line with a token that is not what its place asks for.
Malformed(toks) ==
    /\ Len(toks) >= 1
    /\ \/ ~Integral(toks[1])
       \/ \E k \in 2..Len(toks) : ~Numeric(toks[k])

Values(toks) == [k \in 1..Len(toks) |-> PyFloat(toks[k]).v]

Perms(s) ==
    LET n == Len(s)
    IN {[k \in 1..n |-> s[f[k]]] :
          f \in {g \in [1..n -> 1..n] : \A a, b \in 1..n : g[a] = g[b] => a = b}}

\* Exact arithmetic on finite floats: the sum of the first n of fs, counted in
\* units of 2^lo.
RECURSIVE Units(_, _, _)
Units(fs, n, lo) ==
    IF n = 0 THEN 0 ELSE Units(fs, n - 1, lo) + fs[n].m * Pow2(fs[n].e - lo)

RECURSIVE LowestExp(_, _)
LowestExp(fs, n) ==
    IF n = 0 THEN 0 ELSE Min(fs[n].e, LowestExp(fs, n - 1))

AllFinite(fs) == \A k \in 1..Len(fs) : fs[k].k = "fin"

\* u * 2^lo has at most Prec significant bits
Representable(u, lo) == Abs(Normalize(u, lo).m) < Pow2(Prec)

\* No addition of sum(fs) is rounded: every partial sum is a float.
NoRounding(fs) ==
    /\ AllFinite(fs)
    /\ \A n \in 1..Len(fs) : Representable(Units(fs, n, LowestExp(fs, Len(fs))), LowestExp(fs, Len(fs)))

\* The exact mean of fs, rounded once.
ExactMean(fs) ==
    LET lo == LowestExp(fs, Len(fs))
    IN Round(Units(fs, Len(fs), lo), Pow2(-lo) * Len(fs))

AverageOfLine(toks) == Last(ParseLine(toks).rec)

AfterAssert == {"columns", "comp", "plot", "save", "done"}

AfterCompare == {"plot", "save", "done"}

Ended == {"done", "error"}

\* Both files of a two-file run were read and parsed.
BothParsed == Len(args) = 2 /\ Len(data) = 2

\* ----------------------------------------------------------------- C1
\* C1: safe_div(x, y) is the not-a-number value when y is zero, is x / y when
\* y is not zero, and raises for no pair of operands.
C1_SafeDivContract ==
    pc = "div_done" =>
        /\ IsZero(y) => q = NaN
        /\ ~IsZero(y) => q = PyDiv(x, y)
        /\ q.k # "raise"

C1_Witness ==
    /\ pc = "div_done"
    /\ IsZero(y)
    /\ x.k = "fin" /\ ~IsZero(x)
    /\ q = NaN

\* ----------------------------------------------------------------- C8
\* C8 as stated: the average of a well-formed line is the same for every
\* permutation of its measurements.
C8_SameForEveryPermutation ==
    (pc = "line_done" /\ WellFormed(line)) =>
        \A p \in Perms(Tail(line)) :
            AverageOfLine(<<line[1]>> \o p) = Last(parsed.rec)

\* C8 amended: a well-formed line yields the record [n] + m + [a]; a is NaN
\* when a measurement is NaN; when no addition of the sum is rounded, a is the
\* exact mean rounded once, and it is the same for every permutation of the
\* measurements whose sum is not rounded either.
C8_MeanUpToRounding ==
    (pc = "line_done" /\ WellFormed(line)) =>
        LET m == Values(Tail(line))
            a == Last(parsed.rec)
        IN /\ parsed.err = ""
           /\ Len(parsed.rec) = Len(line) + 1
           /\ parsed.rec[1] = PyInt(line[1]).v
           /\ \A k \in 1..Len(m) : parsed.rec[k + 1] = m[k]
           /\ ~AllFinite(m) => a = NaN
           /\ NoRounding(m) => a = ExactMean(m)
           /\ NoRounding(m) =>
                \A p \in Perms(Tail(line)) :
                    NoRounding(Values(p)) => AverageOfLine(<<line[1]>> \o p) = a

C8_Witness ==
    /\ pc = "line_done"
    /\ WellFormed(line)
    /\ Len(line) = 4
    /\ line[2] # line[3]
    /\ NoRounding(Values(Tail(line)))
    /\ parsed.err = ""
    /\ Last(parsed.rec) = ExactMean(Values(Tail(line)))

\* ----------------------------------------------------------------- C2
\* The record the parser makes of line k of the file named by argument f.
RecordOf(f, k) == ParseLine(FS[args[f]][k]).rec

\* C2: two well-formed files with the same number n of records give a ratio
\* series of n entries, entry i being the quotient of the averages of the
\* records at position i of the two files (whatever their sizes), or the
\* not-a-number value when the second average is zero; the run raises nothing.
C2_RatioSeries ==
    (BothParsed /\ Len(data[1]) = Len(data[2])) =>
        /\ pc # "error"
        /\ \A f \in 1..2 :
             /\ Len(data[f]) = Len(FS[args[f]])
             /\ \A k \in 1..Len(data[f]) : data[f][k] = RecordOf(f, k)
        /\ pc \in AfterCompare =>
             /\ Len(comp) = Len(data[1])
             /\ \A k \in 1..Len(comp) :
                  LET a == Last(RecordOf(1, k))
                      b == Last(RecordOf(2, k))
                  IN /\ comp[k] = IF IsZero(b) THEN NaN ELSE PyDiv(a, b)
                     /\ comp[k].k # "raise"

C2_Witness ==
    /\ pc = "done"
    /\ BothParsed
    /\ Len(data[1]) = Len(data[2])
    /\ \E k \in 1..Len(comp) :
         /\ IsZero(Last(data[2][k]))
         /\ comp[k] = NaN
         /\ data[1][k][1] # data[2][k][1]

\* ----------------------------------------------------------------- C3
\* C3 as stated: a run given other than two paths ends in an assertion
\* failure, with nothing plotted and nothing written.
C3_AlwaysAssertionFailure ==
    (Len(args) # 2 /\ pc \in Ended) =>
        /\ pc = "error" /\ err = "AssertionError"
        /\ plot = EmptyPlot
        /\ written = << >>

\* C3 amended: a run given other than two paths never gets past the
\* assertion, plots nothing and writes nothing; it fails with the assertion
\* exactly when every path given was opened and parsed, and otherwise with the
\* error of the first file that cannot be opened or parsed.
C3_FatalBeforePlotting ==
    Len(args) # 2 =>
        /\ pc \notin AfterAssert
        /\ comp = << >> /\ plot = EmptyPlot /\ written = << >>
        /\ pc = "error" =>
             /\ err = "AssertionError" <=> Len(data) = Len(args)
             /\ err # "AssertionError" =>
                  /\ err \in {"IOError", "IndexError", "ValueError", "ZeroDivisionError"}
                  /\ argi = Len(data) + 1
                  /\ argi <= Len(args)

C3_Witness ==
    /\ Len(args) = 3
    /\ Truthy(opts.output)
    /\ pc = "error"
    /\ err = "AssertionError"
    /\ Len(data) = 3

\* ----------------------------------------------------------------- C4
\* C4 as stated: a run that parsed both files ends without error, having
\* written the plot to the output path if one was given and nothing if not.
C4_AlwaysSavesWhenParsed ==
    (BothParsed /\ pc \in Ended) =>
        /\ pc = "done"
        /\ Truthy(opts.output) => written = <<opts.output[1]>>
        /\ opts.output = NotGiven => written = << >>

\* C4 amended: a run that parsed both files, the second holding at least as
\* many records as the first, raises nothing; it calls savefig once, with
\* exactly the output path, after the plot is drawn, when a non-empty output
\* path was given, and writes nothing otherwise.
C4_SavesWhenCompared ==
    (BothParsed /\ Len(data[2]) >= Len(data[1])) =>
        /\ pc # "error"
        /\ pc = "done" =>
             written = IF Truthy(opts.output) THEN <<opts.output[1]>> ELSE << >>
        /\ pc # "done" => written = << >>
        /\ written # << >> => Len(plot.traces) = 1

C4_Witness ==
    /\ pc = "done"
    /\ BothParsed
    /\ written = <<"plot.png">>
    /\ Len(plot.traces) = 1

\* ----------------------------------------------------------------- C5
\* C5: a line of fewer than two tokens ends the run with an error where it is
\* read, and no record is made of it.
C5_ShortLineIsFatal ==
    [][(pc = "lines" /\ pending # << >> /\ Len(Head(pending)) < 2) =>
          /\ pc' = "error"
          /\ err' \in {"IndexError", "ZeroDivisionError"}
          /\ results' = results
          /\ data' = data]_vars

C5_Witness ==
    /\ pc = "error"
    /\ pending # << >>
    /\ Len(Head(pending)) = 1
    /\ err = "ZeroDivisionError"
    /\ \A f \in 1..Len(data) : \A k \in 1..Len(data[f]) : Len(data[f][k]) >= 3

\* ----------------------------------------------------------------- C6
\* C6: a line whose size is not an integer or that has a measurement that is
\* not a number ends the run with ValueError where it is read; nothing runs
\* after an error, so no ratio is computed, nothing is plotted and nothing is
\* written.
C6_MalformedLineIsFatal ==
    [][/\ pc # "error"
       /\ (pc = "lines" /\ pending # << >> /\ Malformed(Head(pending))) =>
            /\ pc' = "error"
            /\ err' = "ValueError"
            /\ comp' = << >> /\ plot' = EmptyPlot /\ written' = << >>]_vars

C6_Witness ==
    /\ pc = "error"
    /\ err = "ValueError"
    /\ argi = 2
    /\ pending # << >>
    /\ Malformed(Head(pending))
    /\ Truthy(opts.output)
    /\ comp = << >> /\ plot = EmptyPlot /\ written = << >>

\* ----------------------------------------------------------------- C7
\* The plot, once drawn, but for the label of its x axis.
DrawnAsSpecified ==
    /\ Len(plot.traces) = 1
    /\ plot.traces[1].y = comp
    /\ plot.traces[1].x = [k \in 1..Len(comp) |-> k - 1]
    /\ plot.ylabel = IF Truthy(opts.ylabel) THEN opts.ylabel[1] ELSE ""
    /\ plot.title = IF Truthy(opts.title) THEN opts.title[1] ELSE ""

\* C7 as stated: the plot has one trace of the ratios against 0, 1, 2, ...; its
\* x axis has no label (no option sets one), its y axis a label and the plot a
\* title exactly when the option was given.
C7_XAxisUnlabelled ==
    pc \in {"save", "done"} => (DrawnAsSpecified /\ plot.xlabel = "")

\* C7 amended: the plot has one trace of the ratios against 0, 1, 2, ...; its
\* x axis is always labelled 'Data size', its y axis has a label and the plot
\* a title exactly when the option was given; nothing is drawn before that.
C7_PlotContents ==
    /\ pc \in {"save", "done"} => (DrawnAsSpecified /\ plot.xlabel = "Data size")
    /\ pc \notin {"save", "done"} => plot = EmptyPlot

C7_Witness ==
    /\ pc = "save"
    /\ Len(comp) >= 2
    /\ Truthy(opts.ylabel)
    /\ ~Truthy(opts.title)
    /\ plot.ylabel = "speedup" /\ plot.title = ""

\* ----------------------------------------------------------------- C9
\* C9 as stated: every run opens and reads exactly two files and writes at
\* most one.
C9_ExactlyTwoReads ==
    pc \in Ended => (Len(opened) = 2 /\ Len(written) <= 1)

\* C9 amended: the paths are opened once each, in the order given, as far as
\* the run gets: exactly two in a run that gets past the assertion; and at most
\* one file is written, only in such a run.
C9_ReadsAndWrites ==
    /\ Len(opened) <= Len(args)
    /\ opened = SubSeq(args, 1, Len(opened))
    /\ pc \in AfterAssert => Len(opened) = 2
    /\ Len(written) <= 1
    /\ written # << >> => Len(opened) = 2

C9_Witness ==
    /\ pc = "done"
    /\ opened = args
    /\ Len(opened) = 2
    /\ Len(written) = 1

\* ---------------------------------------------------------------- C10
\* C10: when the two files hold different numbers of records, the series
\* follows the first file: with more records in the second, the series has
\* one entry per record of the first file and the rest of the second file is
\* not used; with fewer, the run ends with an error, nothing plotted and
\* nothing written.
C10_FirstFileDrives ==
    (BothParsed /\ Len(data[1]) # Len(data[2])) =>
        IF Len(data[2]) > Len(data[1])
          THEN /\ pc # "error"
               /\ pc \in AfterCompare =>
                    /\ Len(comp) = Len(data[1])
                    /\ \A k \in 1..Len(comp) :
                         comp[k] = safe_div(Last(data[1][k]), Last(data[2][k]))
          ELSE /\ pc \notin AfterCompare
               /\ pc = "error" => err = "IndexError"
               /\ comp = << >> /\ plot = EmptyPlot /\ written = << >>

C10_Witness ==
    /\ pc = "error"
    /\ err = "IndexError"
    /\ BothParsed
    /\ Len(data[2]) < Len(data[1])
    /\ Len(data[2]) >= 1
    /\ Truthy(opts.output)

====
